---- MODULE Spec2Model ----
(***************************************************************************)
(* A model of MarkdownBlogPostBuilder (src/builder/builder.py).            *)
(*                                                                         *)
(* A Python str is modelled as a sequence of one-character strings, so     *)
(* that prefixes, newlines and joins are computed character by character.  *)
(* The state of a builder is its list self.lines; ret is the value the     *)
(* most recent call returned, and calls / op record which calls were made  *)
(* (they are history variables, the code does not keep them).              *)
(***************************************************************************)
EXTENDS Integers, Sequences, FiniteSets, TLC

VARIABLES lines, ret, calls, op

vars == <<lines, ret, calls, op>>

\* ---------------------------------------------------------------- bounds
\* The largest number of fragments a builder of the model accumulates.
MaxFrags == 3

\* The largest number of points handed to one add_list call.
MaxItems == 2

\* ------------------------------------------------------------ characters
NL == "\n"

\* The texts handed to add_title, add_header and add_paragraph: the empty
\* string, "T", "P" and a text with an embedded newline, "T\nP".
Texts == { <<>>, <<"T">>, <<"P">>, <<"T", NL, "P">> }

\* The points of a list: "a" and "b".
Items == { <<"a">>, <<"b">> }

\* The lists handed to add_list: every list of at most MaxItems points,
\* the empty list included.
ItemLists == UNION { [1..n -> Items] : n \in 0..MaxItems }

\* ----------------------------------------------------------- return values
\* A method without a return statement returns None.
None == [isNone |-> TRUE, val |-> <<>>]

Str(s) == [isNone |-> FALSE, val |-> s]

\* The record of one add call: its name, and its text or its points.
Call(name, text, points) == [op |-> name, text |-> text, points |-> points]

\* -------------------------------------------------------------- rendering
\* f"# {text}"
fmt_title(text) == <<"#", " ">> \o text

\* A header rendered with the marker of a title.
fmt_header_single(text) == <<"#", " ">> \o text

\* f"## {text}"
fmt_header(text) == <<"#", "#", " ">> \o text

\* A paragraph rendered without its closing newline.
fmt_paragraph_plain(text) == text

\* f"{text}\n"
fmt_paragraph(text) == text \o <<NL>>

\* A point rendered without its closing newline.
fmt_point_no_newline(point) == <<"*", " ">> \o point

\* f"* {point}\n"
fmt_point(point) == <<"*", " ">> \o point \o <<NL>>

\* sep.join(l) of Python: the elements of l in order with sep between each
\* two neighbours; the empty string for an empty l.
RECURSIVE join(_, _)
join(sep, l) ==
    IF l = <<>> THEN <<>>
    ELSE IF Len(l) = 1 THEN l[1]
    ELSE l[1] \o sep \o join(sep, Tail(l))

\* The list text written as "* " + "\n* ".join(points) + "\n", which leaves
\* a lone bullet for an empty list.
list_loop_joined(list_text, list_of_points) ==
    list_text \o <<"*", " ">> \o join(<<NL, "*", " ">>, list_of_points)
              \o <<NL>>

\* The loop of add_list: list_text starts empty and every point, in order,
\* is added to its end.
RECURSIVE list_loop(_, _)
list_loop(list_text, list_of_points) ==
    IF list_of_points = <<>>
    THEN list_text
    ELSE list_loop(list_text \o fmt_point(Head(list_of_points)),
                   Tail(list_of_points))

\* ------------------------------------------------------------------ state
Init ==
    /\ lines = <<>>
    /\ ret = None
    /\ calls = <<>>
    /\ op = "__init__"

\* ------------------------------------------------------------- operations
add_title(text) ==
    /\ Len(lines) < MaxFrags
    /\ lines' = Append(lines, fmt_title(text))
    /\ ret' = None
    /\ calls' = Append(calls, Call("add_title", text, <<>>))
    /\ op' = "add_title"

add_header(text) ==
    /\ Len(lines) < MaxFrags
    /\ lines' = Append(lines, fmt_header(text))
    /\ ret' = None
    /\ calls' = Append(calls, Call("add_header", text, <<>>))
    /\ op' = "add_header"

add_paragraph(text) ==
    /\ Len(lines) < MaxFrags
    /\ lines' = Append(lines, fmt_paragraph(text))
    /\ ret' = None
    /\ calls' = Append(calls, Call("add_paragraph", text, <<>>))
    /\ op' = "add_paragraph"

\* add_list that appends every point as a fragment of its own.
add_list_per_point(list_of_points) ==
    /\ Len(lines) < MaxFrags
    /\ lines' = lines \o [i \in 1..Len(list_of_points) |->
                             fmt_point(list_of_points[i])]
    /\ ret' = None
    /\ calls' = Append(calls, Call("add_list", <<>>, list_of_points))
    /\ op' = "add_list"

\* add_list that returns at once when it is given no points.
add_list_skip_empty(list_of_points) ==
    /\ Len(lines) < MaxFrags
    /\ lines' = IF list_of_points = <<>>
                THEN lines
                ELSE Append(lines, list_loop(<<>>, list_of_points))
    /\ ret' = None
    /\ calls' = Append(calls, Call("add_list", <<>>, list_of_points))
    /\ op' = "add_list"

add_list(list_of_points) ==
    /\ Len(lines) < MaxFrags
    /\ lines' = Append(lines, list_loop(<<>>, list_of_points))
    /\ ret' = None
    /\ calls' = Append(calls, Call("add_list", <<>>, list_of_points))
    /\ op' = "add_list"

\* ---- variants of build with a slip in them, used to try the properties
RECURSIVE reversed(_)
reversed(l) == IF l = <<>> THEN <<>> ELSE Append(reversed(Tail(l)), Head(l))

\* build that renders the fragments last to first.
build_reversed ==
    /\ lines' = lines
    /\ ret' = Str(join(<<NL>>, reversed(lines)))
    /\ calls' = calls
    /\ op' = "build"

\* build that hands the document over and starts a new one.
build_resets ==
    /\ lines' = <<>>
    /\ ret' = Str(join(<<NL>>, lines))
    /\ calls' = calls
    /\ op' = "build"

\* build that joins with an empty line, "\n\n".
build_blank_line ==
    /\ lines' = lines
    /\ ret' = Str(join(<<NL, NL>>, lines))
    /\ calls' = calls
    /\ op' = "build"

\* build that ends every document, the empty one too, with a newline.
build_trailing_newline ==
    /\ lines' = lines
    /\ ret' = Str(join(<<NL>>, lines) \o <<NL>>)
    /\ calls' = calls
    /\ op' = "build"

build ==
    /\ lines' = lines
    /\ ret' = Str(join(<<NL>>, lines))
    /\ calls' = calls
    /\ op' = "build"

AddTitle == \E text \in Texts : add_title(text)

AddHeader == \E text \in Texts : add_header(text)

AddParagraph == \E text \in Texts : add_paragraph(text)

AddList == \E list_of_points \in ItemLists : add_list(list_of_points)

Next ==
    \/ AddTitle
    \/ AddHeader
    \/ AddParagraph
    \/ AddList
    \/ build

Spec == Init /\ [][Next]_vars

\* ------------------------------------------------- helpers of the properties
AddOps == {"add_title", "add_header", "add_paragraph", "add_list"}

\* The block the call c is to leave in the document.
Block(c) ==
    CASE c.op = "add_title" -> fmt_title(c.text)
      [] c.op = "add_header" -> fmt_header(c.text)
      [] c.op = "add_paragraph" -> fmt_paragraph(c.text)
      [] c.op = "add_list" -> list_loop(<<>>, c.points)

\* s has the characters of t at the positions from, from + 1, ...
HasAt(s, from, t) ==
    /\ from >= 1
    /\ from + Len(t) - 1 <= Len(s)
    /\ \A k \in 1..Len(t) : s[from + k - 1] = t[k]

\* The sum of Len(l[j]) + extra over the first n elements of l.
RECURSIVE SumLen(_, _, _)
SumLen(l, n, extra) ==
    IF n = 0 THEN 0 ELSE SumLen(l, n - 1, extra) + Len(l[n]) + extra

\* Where the i-th of the blocks l starts in a string that holds the blocks
\* in order with one character between neighbours.
StartOf(l, i) == 1 + SumLen(l, i - 1, 1)

EndOf(l, i) == StartOf(l, i) + Len(l[i]) - 1

HasNewline(t) == \E k \in 1..Len(t) : t[k] = NL

\* s.split("\n"): the lines of s, the text after the last newline included.
RECURSIVE split_lines(_, _, _)
split_lines(s, cur, acc) ==
    IF s = <<>> THEN Append(acc, cur)
    ELSE IF Head(s) = NL THEN split_lines(Tail(s), <<>>, Append(acc, cur))
    ELSE split_lines(Tail(s), Append(cur, Head(s)), acc)

SplitLines(s) == split_lines(s, <<>>, <<>>)

IsBulletLine(l) == Len(l) >= 2 /\ l[1] = "*" /\ l[2] = " "

LastCall == calls[Len(calls)]

LastLine == lines[Len(lines)]

Blocks == [i \in 1..Len(calls) |-> Block(calls[i])]

\* ----------------------------------------------------------------- claims

\* C1: after build(), the block of the i-th add call stands in the returned
\* string as one contiguous run of characters, after the blocks of all
\* earlier calls and before the blocks of all later calls, one character
\* apart from its neighbours, whatever newlines the call's text holds.
OrderPreserved ==
    op = "build" =>
        /\ ~ret.isNone
        /\ Len(lines) = Len(calls)
        /\ \A i \in 1..Len(calls) :
              HasAt(ret.val, StartOf(Blocks, i), Blocks[i])
        /\ \A i \in 1..Len(calls) : \A j \in 1..Len(calls) :
              i < j => EndOf(Blocks, i) < StartOf(Blocks, j)
        /\ Len(calls) > 0 => Len(ret.val) = EndOf(Blocks, Len(calls))

\* Three different blocks, one of them with an embedded newline, were built.
OrderPreservedWitness ==
    /\ op = "build"
    /\ Len(calls) = 3
    /\ calls[1].op = "add_paragraph" /\ HasNewline(calls[1].text)
    /\ calls[2].op = "add_list" /\ Len(calls[2].points) = 2
    /\ calls[3].op = "add_title" /\ calls[3].text = <<"T">>
    /\ HasAt(ret.val, 1, <<"T", NL, "P", NL, NL, "*", " ">>)

\* C2: build() leaves the fragments as they were, and a build() that follows
\* a build() returns the string the first one returned.
BuildKeepsState ==
    [][op' = "build" =>
          /\ lines' = lines
          /\ op = "build" => ret' = ret]_vars

\* build() ran on a builder that holds fragments, which are still there.
BuildKeepsStateWitness ==
    /\ op = "build"
    /\ Len(lines) = 2
    /\ ret.val = lines[1] \o <<NL>> \o lines[2]

\* C3 as amended: with two or more fragments, build() returns the fragments
\* with exactly one newline character between each two neighbours, nothing
\* before the first fragment and nothing after the last.
JoinedBySingleNewline ==
    (op = "build" /\ Len(lines) >= 2) =>
        /\ \A i \in 1..Len(lines) : HasAt(ret.val, StartOf(lines, i), lines[i])
        /\ \A i \in 1..(Len(lines) - 1) :
              /\ HasAt(ret.val, EndOf(lines, i) + 1, <<NL>>)
              /\ StartOf(lines, i + 1) = EndOf(lines, i) + 2
        /\ StartOf(lines, 1) = 1
        /\ Len(ret.val) = EndOf(lines, Len(lines))

\* A title and a header were built: "# T\n## P", no empty line in it.
JoinedBySingleNewlineWitness ==
    /\ op = "build"
    /\ Len(lines) = 2
    /\ ret.val = <<"#", " ", "T", NL, "#", "#", " ", "P">>

\* The separator newline that follows fragment i borders an empty line of s:
\* it stands first in s, or next to another newline.
BlankLineAfter(s, i) ==
    LET p == EndOf(lines, i) + 1
    IN  /\ HasAt(s, p, <<NL>>)
        /\ \/ p = 1
           \/ HasAt(s, p - 1, <<NL>>)
           \/ HasAt(s, p + 1, <<NL>>)

\* C3 as stated: with two or more fragments, the output of build() holds a
\* blank line between each two neighbouring fragments.
JoinedByBlankLine ==
    (op = "build" /\ Len(lines) >= 2) =>
        \A i \in 1..(Len(lines) - 1) : BlankLineAfter(ret.val, i)

\* The calls of the round-trip scenario: add_title("T"), add_paragraph("P"),
\* add_list(["a", "b"]).
RoundTripCalls ==
    << Call("add_title", <<"T">>, <<>>),
       Call("add_paragraph", <<"P">>, <<>>),
       Call("add_list", <<>>, << <<"a">>, <<"b">> >>) >>

\* C4 as amended: after the scenario's calls, build() returns
\* "# T\nP\n\n* a\n* b\n": the lines "# T" and "P" with no blank line
\* between them, one blank line, the lines "* a" and "* b", and a newline
\* at the end.
RoundTripLines ==
    (calls = RoundTripCalls /\ op = "build") =>
        /\ ~ret.isNone
        /\ SplitLines(ret.val) =
              << <<"#", " ", "T">>, <<"P">>, <<>>,
                 <<"*", " ", "a">>, <<"*", " ", "b">>, <<>> >>

\* The scenario ran to its build().
RoundTripWitness ==
    /\ calls = RoundTripCalls
    /\ op = "build"
    /\ Len(ret.val) = 15

\* C4 as stated: the lines of the returned string are "# T", a blank line,
\* "P", a blank line, "* a", "* b" and a blank line at the end.
RoundTripBlankLines ==
    (calls = RoundTripCalls /\ op = "build") =>
        SplitLines(ret.val) =
            << <<"#", " ", "T">>, <<>>, <<"P">>, <<>>,
               <<"*", " ", "a">>, <<"*", " ", "b">>, <<>> >>

\* C5: build() on a builder to which nothing was added returns the empty
\* string.
EmptyBuild ==
    (calls = <<>> /\ op = "build") => ret = Str(<<>>)

\* build() ran on the builder as constructed.
EmptyBuildWitness ==
    /\ calls = <<>>
    /\ lines = <<>>
    /\ op = "build"
    /\ ~ret.isNone

\* No line of s starts with the bullet marker "* ".
NoBulletLine(s) ==
    \A k \in 1..Len(SplitLines(s)) : ~IsBulletLine(SplitLines(s)[k])

\* C6: add_list([]) on a fresh builder appends exactly one fragment, the
\* empty one, and returns normally; the build() that follows returns a
\* string with no bullet line.
EmptyList ==
    calls = <<Call("add_list", <<>>, <<>>)>> =>
        /\ lines = << <<>> >>
        /\ op = "add_list" => ret = None
        /\ op = "build" => (~ret.isNone /\ NoBulletLine(ret.val))

\* add_list([]) and then build() ran on a fresh builder.
EmptyListWitness ==
    /\ calls = <<Call("add_list", <<>>, <<>>)>>
    /\ op = "build"
    /\ Len(lines) = 1

\* C7: every add call makes the fragment sequence one longer and leaves the
\* fragments it found as a prefix of the new sequence; no step of the
\* builder shortens the sequence or changes a fragment that is in it.
AppendOnly ==
    [][/\ Len(lines') >= Len(lines)
       /\ \A i \in 1..Len(lines) : lines'[i] = lines[i]
       /\ op' \in AddOps => Len(lines') = Len(lines) + 1
       /\ calls' # calls => op' \in AddOps]_vars

\* add_list of two points ran on a builder that held two fragments.
AppendOnlyWitness ==
    /\ op = "add_list"
    /\ Len(lines) = 3
    /\ Len(LastCall.points) = 2
    /\ lines[1] # lines[2]

\* C8: the builder is Empty (no fragment) when constructed and Accumulating
\* (one fragment or more) otherwise; every add call, add_list([]) and empty
\* texts included, ends in Accumulating; build() can run in every state and
\* keeps the state; an Accumulating builder never becomes Empty; and no
\* state refuses an add call (up to the bound of the model) or build().
TwoStates ==
    /\ [](op = "__init__" => Len(lines) = 0)
    /\ [](ENABLED build)
    /\ [](Len(lines) < MaxFrags =>
            /\ ENABLED AddTitle
            /\ ENABLED AddHeader
            /\ ENABLED AddParagraph
            /\ ENABLED add_list(<<>>))
    /\ [][/\ op' \in AddOps => Len(lines') >= 1
          /\ op' = "build" => ((Len(lines') = 0) <=> (Len(lines) = 0))
          /\ Len(lines) >= 1 => Len(lines') >= 1]_vars

\* add_list([]) took a fresh builder from Empty to Accumulating.
TwoStatesWitness ==
    /\ op = "add_list"
    /\ calls = <<Call("add_list", <<>>, <<>>)>>
    /\ Len(lines) = 1

TitleHeaderParagraph ==
    op \in {"add_title", "add_header", "add_paragraph"} =>
        LET t == LastCall.text
            frag == LastLine
        IN  /\ Len(lines) = Len(calls)
            /\ LastCall.op = op
            /\ ret = None
            /\ op = "add_title" =>
                  /\ Len(frag) = Len(t) + 2
                  /\ HasAt(frag, 1, <<"#", " ">>)
                  /\ HasAt(frag, 3, t)
            /\ op = "add_header" =>
                  /\ Len(frag) = Len(t) + 3
                  /\ HasAt(frag, 1, <<"#", "#", " ">>)
                  /\ HasAt(frag, 4, t)
            /\ op = "add_paragraph" =>
                  /\ Len(frag) = Len(t) + 1
                  /\ HasAt(frag, 1, t)
                  /\ HasAt(frag, Len(t) + 1, <<NL>>)

\* A title, a header of the empty text and a paragraph of the empty text
\* were added.
TitleHeaderParagraphWitness ==
    /\ Len(calls) = 3
    /\ calls[1].op = "add_title" /\ lines[1] = <<"#", " ", "T">>
    /\ calls[2].op = "add_header" /\ lines[2] = <<"#", "#", " ">>
    /\ op = "add_paragraph" /\ LastCall.text = <<>> /\ lines[3] = <<NL>>

====
